---- MODULE Spec2Model ----
(***************************************************************************)
(* A model of the semantic retrieval store of backend/vector_utils.py      *)
(* (class VectorStore) and of the two request handlers of backend/main.py  *)
(* that drive it.                                                          *)
(*                                                                         *)
(* Strings.  A Python str is modelled as a sequence of tokens: a positive  *)
(* integer n is a run of n characters holding no whitespace, no '.' and no *)
(* newline; Space, Dot and Newline are the single characters ' ', '.' and  *)
(* '\n'.  Inputs never put two runs next to each other, and split, strip   *)
(* and concatenation with ". " never create such a pair, so equal strings  *)
(* have equal token sequences.                                             *)
(*                                                                         *)
(* Vectors.  The encoder is external (SentenceTransformer); it is modelled *)
(* as a deterministic function of the text alone, giving one coordinate.   *)
(* The index keeps its dimension d and the stored coordinates xb.          *)
(***************************************************************************)
EXTENDS Integers, Sequences, FiniteSets, TLC

VARIABLES
    index,              \* self.index: [d, xb], ntotal = Len(xb)
    chunks,             \* self.chunks: list of chunk records
    document_metadata,  \* self.document_metadata: doc_id -> metadata
    disk,               \* the three files under backend/storage
    last,               \* the last call made on the store and what it returned
    faults,             \* how many saves have failed so far
    pc,                 \* request handlers: position of each request
    loopOwner,          \* the request holding the event-loop thread (0: none)
    req,                \* request handlers: each request's inputs and locals
    observed            \* what the last ask request read from the store

storeVars == <<index, chunks, document_metadata, disk>>
asyncVars == <<pc, loopOwner, req, observed>>
vars      == <<index, chunks, document_metadata, disk, last, faults,
               pc, loopOwner, req, observed>>

----------------------------------------------------------------------------
(* Bounds of the model. *)

MaxVectors == 3     \* add_document is not called once the index would exceed this
MaxDiskVectors == 2 \* the same cap where the files are followed
MaxFaults   == 1    \* no save fails once this many have failed
MaxRequests == 3    \* requests served by the event loop
MaxTokens   == 4    \* tokens of a text given to _split_text on its own

----------------------------------------------------------------------------
(* Strings *)

Space   == 0
Dot     == -1
Newline == -2

CharLen(tok) == IF tok > 0 THEN tok ELSE 1

RECURSIVE StrLen(_)
StrLen(s) == IF s = <<>> THEN 0 ELSE CharLen(Head(s)) + StrLen(Tail(s))

IsSpace(tok) == tok = Space \/ tok = Newline

RECURSIVE LStrip(_)
LStrip(s) == IF s # <<>> /\ IsSpace(Head(s)) THEN LStrip(Tail(s)) ELSE s

RECURSIVE RStrip(_)
RStrip(s) ==
    IF s # <<>> /\ IsSpace(s[Len(s)]) THEN RStrip(SubSeq(s, 1, Len(s) - 1)) ELSE s

\* str.strip()
Strip(s) == RStrip(LStrip(s))

RECURSIVE SplitLinesFrom(_, _)
SplitLinesFrom(s, cur) ==
    IF s = <<>> THEN <<cur>>
    ELSE IF Head(s) = Newline THEN <<cur>> \o SplitLinesFrom(Tail(s), <<>>)
    ELSE SplitLinesFrom(Tail(s), Append(cur, Head(s)))

\* text.split('\n')
SplitLines(s) == SplitLinesFrom(s, <<>>)

RECURSIVE SplitSentencesFrom(_, _)
SplitSentencesFrom(s, cur) ==
    IF s = <<>> THEN <<cur>>
    ELSE IF Len(s) >= 2 /\ s[1] = Dot /\ s[2] = Space
         THEN <<cur>> \o SplitSentencesFrom(SubSeq(s, 3, Len(s)), <<>>)
    ELSE SplitSentencesFrom(Tail(s), Append(cur, Head(s)))

\* para.split('. ')
SplitSentences(s) == SplitSentencesFrom(s, <<>>)

----------------------------------------------------------------------------
(* VectorStore._split_text *)

DefaultMinLength == 20
MaxChunkLen      == 500

\* a variant that flushes the buffer whatever its length
RECURSIVE AccumulateFlushAlways(_, _, _, _)
AccumulateFlushAlways(sents, current_chunk, out, min_length) ==
    IF sents = <<>>
    THEN IF current_chunk # <<>> /\ StrLen(current_chunk) >= min_length
         THEN Append(out, current_chunk)
         ELSE out
    ELSE LET sent == Head(sents) IN
         IF StrLen(current_chunk) + StrLen(sent) > MaxChunkLen
         THEN AccumulateFlushAlways(Tail(sents), sent, Append(out, current_chunk),
                                    min_length)
         ELSE AccumulateFlushAlways(Tail(sents),
                                    IF current_chunk # <<>>
                                    THEN current_chunk \o <<Dot, Space>> \o sent
                                    ELSE sent,
                                    out, min_length)

\* the loop over sentences of one long paragraph, then the final flush
RECURSIVE Accumulate(_, _, _, _)
Accumulate(sents, current_chunk, out, min_length) ==
    IF sents = <<>>
    THEN IF current_chunk # <<>> /\ StrLen(current_chunk) >= min_length
         THEN Append(out, current_chunk)
         ELSE out
    ELSE LET sent == Head(sents) IN
         IF StrLen(current_chunk) + StrLen(sent) > MaxChunkLen
         THEN Accumulate(Tail(sents), sent,
                         IF StrLen(current_chunk) >= min_length
                         THEN Append(out, current_chunk)
                         ELSE out,
                         min_length)
         ELSE Accumulate(Tail(sents),
                         IF current_chunk # <<>>
                         THEN current_chunk \o <<Dot, Space>> \o sent
                         ELSE sent,
                         out, min_length)

ChunksOfParagraph(para, min_length) ==
    IF StrLen(para) > MaxChunkLen
    THEN Accumulate(SplitSentences(para), <<>>, <<>>, min_length)
    ELSE <<para>>

RECURSIVE Paragraphs(_, _)
Paragraphs(lines, min_length) ==
    IF lines = <<>> THEN <<>>
    ELSE (IF StrLen(Strip(Head(lines))) >= min_length
          THEN <<Strip(Head(lines))>>
          ELSE <<>>) \o Paragraphs(Tail(lines), min_length)

RECURSIVE FinalChunks(_, _)
FinalChunks(paragraphs, min_length) ==
    IF paragraphs = <<>> THEN <<>>
    ELSE ChunksOfParagraph(Head(paragraphs), min_length)
         \o FinalChunks(Tail(paragraphs), min_length)

SplitText(text, min_length) ==
    FinalChunks(Paragraphs(SplitLines(text), min_length), min_length)

----------------------------------------------------------------------------
(* The encoder and the flat L2 index *)

embedding_dim == 384

\* self.model.encode: one coordinate per text, a function of the text alone
EmbedText(t) == StrLen(t)

EncOutcomes == {"ok", "raise", "baddim"}

\* the array np.array(self.model.encode(texts)): its row width and its rows
Encode(texts, enc) ==
    [d    |-> IF enc = "baddim" THEN embedding_dim + 1 ELSE embedding_dim,
     rows |-> [i \in 1..Len(texts) |-> EmbedText(texts[i])]]

\* faiss.IndexFlatL2(self.embedding_dim)
EmptyIndex == [d |-> embedding_dim, xb |-> <<>>]

ntotal(idx) == Len(idx.xb)

\* index.add raises unless the rows have the index's width
IndexAddRaises(idx, arr) == arr.d # idx.d

IndexAdd(idx, arr) == [idx EXCEPT !.xb = @ \o arr.rows]

\* squared L2 distance, as IndexFlatL2 reports it
L2Sqr(a, b) == (a - b) * (a - b)

\* the distance faiss reports in a slot it could not fill (id -1)
NoHitDistance == 1000000

\* whether hit a comes before hit b: nearer first, the lower id on a tie
HitBefore(a, b) == a.dist < b.dist \/ (a.dist = b.dist /\ a.id < b.id)

RECURSIVE SortedHits(_)
SortedHits(S) ==
    IF S = {} THEN <<>>
    ELSE LET h == CHOOSE a \in S : \A b \in S \ {a} : HitBefore(a, b)
         IN  <<h>> \o SortedHits(S \ {h})

\* index.search(q, top_k) for one query row: exactly top_k slots, ids from 0
IndexSearch(idx, q, top_k) ==
    LET all  == SortedHits({[id |-> i - 1, dist |-> L2Sqr(idx.xb[i], q)] :
                            i \in 1..ntotal(idx)})
        npad == IF top_k > Len(all) THEN top_k - Len(all) ELSE 0
    IN  SubSeq(all, 1, top_k - npad) \o [j \in 1..npad |-> [id |-> -1, dist |-> NoHitDistance]]

----------------------------------------------------------------------------
(* Persistence: _save_to_disk and _load_from_disk *)

Absent  == [st |-> "absent"]
Corrupt == [st |-> "corrupt"]
File(data) == [st |-> "ok", data |-> data]

EmptyDisk == [index_file |-> Absent, chunk_file |-> Absent, metadata_file |-> Absent]

EmptyMeta == [k \in {} |-> TRUE]

ChunkKeys == <<"doc_id", "doc_name", "text", "page", "chunk_id", "embedding_id">>

\* faiss.write_index / faiss.read_index: the header and the stored rows
WriteIndex(idx) == <<idx.d, ntotal(idx), idx.xb>>
ReadIndex(data) == [d |-> data[1], xb |-> SubSeq(data[3], 1, data[2])]

\* json.dump / json.load of the chunk list: each dict as its key/value pairs
JsonDump(chs) ==
    [i \in 1..Len(chs) |-> [j \in 1..Len(ChunkKeys) |-> <<ChunkKeys[j], chs[i][ChunkKeys[j]]>>]]

JsonObject(pairs) ==
    [k \in {pairs[j][1] : j \in 1..Len(pairs)} |->
        pairs[CHOOSE j \in 1..Len(pairs) : pairs[j][1] = k][2]]

JsonLoad(data) == [i \in 1..Len(data) |-> JsonObject(data[i])]

\* pickle.dump / pickle.load of the metadata dict
PickleDump(meta) == {<<k, meta[k]>> : k \in DOMAIN meta}
PickleLoad(data) ==
    [k \in {p[1] : p \in data} |-> (CHOOSE p \in data : p[1] = k)[2]]

SaveOutcomes == {"ok", "fail_mkdir", "fail_index", "fail_chunk_open",
                 "fail_chunk_dump", "fail_meta_open", "fail_meta_dump"}

\* a variant that returns after the chunk file, never writing the metadata file
SaveToDiskNoMeta(dsk, idx, chs, meta, sv) ==
    IF sv = "fail_mkdir" THEN dsk
    ELSE IF sv = "fail_index" THEN [dsk EXCEPT !.index_file = Corrupt]
    ELSE LET d1 == [dsk EXCEPT !.index_file = File(WriteIndex(idx))] IN
    IF sv = "fail_chunk_open" THEN d1
    ELSE IF sv = "fail_chunk_dump" THEN [d1 EXCEPT !.chunk_file = Corrupt]
    ELSE [d1 EXCEPT !.chunk_file = File(JsonDump(chs))]

\* _save_to_disk: three writes in order; sv says where (if anywhere) it raises.
\* A write that raises midway leaves its file unreadable; the except clause
\* only logs.
SaveToDisk(dsk, idx, chs, meta, sv) ==
    IF sv = "fail_mkdir" THEN dsk
    ELSE IF sv = "fail_index" THEN [dsk EXCEPT !.index_file = Corrupt]
    ELSE LET d1 == [dsk EXCEPT !.index_file = File(WriteIndex(idx))] IN
    IF sv = "fail_chunk_open" THEN d1
    ELSE IF sv = "fail_chunk_dump" THEN [d1 EXCEPT !.chunk_file = Corrupt]
    ELSE LET d2 == [d1 EXCEPT !.chunk_file = File(JsonDump(chs))] IN
    IF sv = "fail_meta_open" THEN d2
    ELSE IF sv = "fail_meta_dump" THEN [d2 EXCEPT !.metadata_file = Corrupt]
    ELSE [d2 EXCEPT !.metadata_file = File(PickleDump(meta))]

EmptyStore == [index |-> EmptyIndex, chunks |-> <<>>, meta |-> EmptyMeta]

\* _load_from_disk on a store just constructed empty: each file is read if it
\* exists; a read that raises resets all three structures.
LoadFromDisk(dsk) ==
    IF \/ dsk.index_file.st = "corrupt"
       \/ dsk.chunk_file.st = "corrupt"
       \/ dsk.metadata_file.st = "corrupt"
    THEN EmptyStore
    ELSE [index  |-> IF dsk.index_file.st = "ok"
                     THEN ReadIndex(dsk.index_file.data) ELSE EmptyIndex,
          chunks |-> IF dsk.chunk_file.st = "ok"
                     THEN JsonLoad(dsk.chunk_file.data) ELSE <<>>,
          meta   |-> IF dsk.metadata_file.st = "ok"
                     THEN PickleLoad(dsk.metadata_file.data) ELSE EmptyMeta]

----------------------------------------------------------------------------
(* The store's operations, each as the whole call: st is the store before   *)
(* the call, the result is the store after it with the value returned.      *)

Store(idx, chs, meta, dsk) == [index |-> idx, chunks |-> chs, meta |-> meta, disk |-> dsk]

\* a variant in which a failed save is raised out of the call: the store is
\* reset and the call returns False
ReturnedResetOnFailedSave(st, ret, save) ==
    IF save \in {"ok", "none"}
    THEN [index |-> st.index, chunks |-> st.chunks, meta |-> st.meta, disk |-> st.disk,
          ret |-> ret, save |-> save]
    ELSE [index |-> EmptyIndex, chunks |-> <<>>, meta |-> EmptyMeta, disk |-> st.disk,
          ret |-> FALSE, save |-> save]

Returned(st, ret, save) ==
    [index |-> st.index, chunks |-> st.chunks, meta |-> st.meta, disk |-> st.disk,
     ret |-> ret, save |-> save]

\* Python's i % n for n # 0: the result has the sign of n
PyMod(i, n) == IF n > 0 THEN i % n ELSE 0 - ((0 - i) % (0 - n))

\* a variant that numbers the pages by position, without the modulo
ChunkRecordPageByPosition(chs, nt, paragraphs, i, doc_id, doc_name, page_count) ==
    [doc_id       |-> doc_id,
     doc_name     |-> doc_name,
     text         |-> paragraphs[i + 1],
     page         |-> i + 1,
     chunk_id     |-> Len(chs),
     embedding_id |-> nt - Len(paragraphs) + i]

\* the record add_document appends for paragraphs[i + 1] (i counts from 0),
\* chs being self.chunks at that moment and nt the index size after index.add
ChunkRecord(chs, nt, paragraphs, i, doc_id, doc_name, page_count) ==
    [doc_id       |-> doc_id,
     doc_name     |-> doc_name,
     text         |-> paragraphs[i + 1],
     page         |-> PyMod(i, page_count) + 1,
     chunk_id     |-> Len(chs),
     embedding_id |-> nt - Len(paragraphs) + i]

RECURSIVE AppendChunks(_, _, _, _, _, _, _)
AppendChunks(chs, nt, paragraphs, i, doc_id, doc_name, page_count) ==
    IF i >= Len(paragraphs) THEN chs
    ELSE AppendChunks(Append(chs, ChunkRecord(chs, nt, paragraphs, i,
                                              doc_id, doc_name, page_count)),
                      nt, paragraphs, i + 1, doc_id, doc_name, page_count)

MetaEntry(doc_name, page_count, n) ==
    [name |-> doc_name, page_count |-> page_count, chunk_count |-> n]

MetaPut(meta, doc_id, entry) ==
    [k \in DOMAIN meta \cup {doc_id} |-> IF k = doc_id THEN entry ELSE meta[k]]

\* a variant that leaves the registry entry in place
MetaDelSkipped(meta, doc_id) == meta

MetaDel(meta, doc_id) == [k \in DOMAIN meta \ {doc_id} |-> meta[k]]

\* a variant that saves before the registry is updated
AddDocumentCallSaveFirst(st, text, doc_id, doc_name, page_count, enc, sv) ==
    LET paragraphs == SplitText(text, DefaultMinLength) IN
    IF paragraphs = <<>> THEN Returned(st, FALSE, "none")
    ELSE IF enc = "raise" THEN Returned(st, FALSE, "none")
    ELSE LET arr == Encode(paragraphs, enc) IN
    IF IndexAddRaises(st.index, arr) THEN Returned(st, FALSE, "none")
    ELSE LET idx1 == IndexAdd(st.index, arr) IN
    IF page_count = 0 THEN Returned([st EXCEPT !.index = idx1], FALSE, "none")
    ELSE LET chs1  == AppendChunks(st.chunks, ntotal(idx1), paragraphs, 0,
                                   doc_id, doc_name, page_count)
             dsk1  == SaveToDisk(st.disk, idx1, chs1, st.meta, sv)
             meta1 == MetaPut(st.meta, doc_id,
                              MetaEntry(doc_name, page_count, Len(paragraphs)))
         IN  Returned(Store(idx1, chs1, meta1, dsk1), TRUE, sv)

\* add_document(text, doc_id, doc_name, page_count); enc is what the encoder
\* does, sv what the save does.  upload_time is written and never read: left out.
AddDocumentCall(st, text, doc_id, doc_name, page_count, enc, sv) ==
    LET paragraphs == SplitText(text, DefaultMinLength) IN
    IF paragraphs = <<>> THEN Returned(st, FALSE, "none")
    ELSE IF enc = "raise" THEN Returned(st, FALSE, "none")
    ELSE LET arr == Encode(paragraphs, enc) IN
    IF IndexAddRaises(st.index, arr) THEN Returned(st, FALSE, "none")
    ELSE LET idx1 == IndexAdd(st.index, arr) IN
    \* (i % page_count) raises ZeroDivisionError building the first record
    IF page_count = 0 THEN Returned([st EXCEPT !.index = idx1], FALSE, "none")
    ELSE LET chs1  == AppendChunks(st.chunks, ntotal(idx1), paragraphs, 0,
                                   doc_id, doc_name, page_count)
             meta1 == MetaPut(st.meta, doc_id,
                              MetaEntry(doc_name, page_count, Len(paragraphs)))
             dsk1  == SaveToDisk(st.disk, idx1, chs1, meta1, sv)
         IN  Returned(Store(idx1, chs1, meta1, dsk1), TRUE, sv)

\* how a call of add_document ends for its caller: the try block spans the whole
\* body and `except Exception` (lines 115-117) returns False, so nothing the
\* encoder or the index raises reaches the caller
AddDocumentOutcome(st, text, doc_id, doc_name, page_count, enc, sv) ==
    IF AddDocumentCall(st, text, doc_id, doc_name, page_count, enc, sv).ret
    THEN "returned True" ELSE "returned False"

\* get_document_chunks
GetDocumentChunks(chs, doc_id) == SelectSeq(chs, LAMBDA c : c.doc_id = doc_id)

\* all_vectors[keep_mask]: the rows whose position is not masked out
RECURSIVE KeepRows(_, _, _)
KeepRows(xb, masked, i) ==
    IF i > Len(xb) THEN <<>>
    ELSE (IF (i - 1) \in masked THEN <<>> ELSE <<xb[i]>>) \o KeepRows(xb, masked, i + 1)

\* a variant without the renumbering loop
RenumberSkipped(chs) == chs

\* for i, chunk in enumerate(self.chunks): chunk['embedding_id'] = i
Renumber(chs) == [i \in 1..Len(chs) |-> [chs[i] EXCEPT !.embedding_id = i - 1]]

\* a variant that drops only the document's first chunk record
RemainingChunksFirstOnly(chs, doc_id) ==
    LET mine == {i \in 1..Len(chs) : chs[i].doc_id = doc_id}
        first == CHOOSE i \in mine : \A j \in mine : i <= j
    IN  [k \in 1..(Len(chs) - 1) |-> IF k < first THEN chs[k] ELSE chs[k + 1]]

\* [chunk for chunk in self.chunks if chunk['doc_id'] != doc_id]
RemainingChunks(chs, doc_id) == SelectSeq(chs, LAMBDA c : c.doc_id # doc_id)

\* a variant without the two early returns of lines 149-153
DeleteDocumentCallUnchecked(st, doc_id, sv) ==
    LET mine   == GetDocumentChunks(st.chunks, doc_id)
        masked == {mine[i].embedding_id : i \in 1..Len(mine)}
    IN  IF \E e \in masked : e >= ntotal(st.index) \/ e < 0 - ntotal(st.index)
        THEN Returned(st, FALSE, "none")
        ELSE LET idx1  == [d |-> embedding_dim,
                           xb |-> KeepRows(st.index.xb,
                                           {IF e < 0 THEN e + ntotal(st.index) ELSE e :
                                            e \in masked}, 1)]
                 chs1  == Renumber(RemainingChunks(st.chunks, doc_id))
                 meta1 == MetaDel(st.meta, doc_id)
                 dsk1  == SaveToDisk(st.disk, idx1, chs1, meta1, sv)
             IN  Returned(Store(idx1, chs1, meta1, dsk1), TRUE, sv)

\* delete_document(doc_id)
DeleteDocumentCall(st, doc_id, sv) ==
    IF doc_id \notin DOMAIN st.meta THEN Returned(st, FALSE, "none")
    ELSE LET mine == GetDocumentChunks(st.chunks, doc_id) IN
    IF mine = <<>> THEN Returned(st, FALSE, "none")
    ELSE LET masked == {mine[i].embedding_id : i \in 1..Len(mine)} IN
    \* keep_mask[[ids]] = False raises IndexError for an id outside the index
    IF \E e \in masked : e >= ntotal(st.index) \/ e < 0 - ntotal(st.index)
    THEN Returned(st, FALSE, "none")
    ELSE LET idx1  == [d |-> embedding_dim,
                       xb |-> KeepRows(st.index.xb,
                                       {IF e < 0 THEN e + ntotal(st.index) ELSE e :
                                        e \in masked}, 1)]
             chs1  == Renumber(RemainingChunks(st.chunks, doc_id))
             meta1 == MetaDel(st.meta, doc_id)
             dsk1  == SaveToDisk(st.disk, idx1, chs1, meta1, sv)
         IN  Returned(Store(idx1, chs1, meta1, dsk1), TRUE, sv)

\* what search appends for one hit
SearchResult(chunk, hit) ==
    [doc_id |-> chunk.doc_id, doc_name |-> chunk.doc_name, text |-> chunk.text,
     page |-> chunk.page, chunk_id |-> chunk.chunk_id,
     embedding_id |-> chunk.embedding_id,
     score |-> 1 - hit.dist, distance |-> hit.dist]

\* self.chunks[idx] for a Python index: a negative idx counts from the end
PyIndex(chs, idx) == IF idx < 0 THEN Len(chs) + idx + 1 ELSE idx + 1

\* the negation of: doc_filter and chunk['doc_id'] not in doc_filter
PassesFilter(chunk, doc_filter) == doc_filter = {} \/ chunk.doc_id \in doc_filter

RECURSIVE CollectResults(_, _, _)
CollectResults(chs, hits, doc_filter) ==
    IF hits = <<>> THEN <<>>
    ELSE LET hit == Head(hits)
             rest == CollectResults(chs, Tail(hits), doc_filter)
         IN  IF hit.id >= Len(chs) THEN rest
             ELSE LET chunk == chs[PyIndex(chs, hit.id)] IN
                  IF PassesFilter(chunk, doc_filter)
                  THEN <<SearchResult(chunk, hit)>> \o rest
                  ELSE rest

\* whether search reaches self.model.encode: not when it returns at line 123
SearchEncodes(idx) == ntotal(idx) # 0

\* a variant without the early return on an empty index
SearchNoEmptyCheck(idx, chs, query, top_k, doc_filter, enc) ==
    IF enc = "raise" THEN <<>>
    ELSE LET qarr == Encode(<<query>>, enc) IN
    IF qarr.d # idx.d \/ top_k < 1 THEN <<>>
    ELSE LET hits == IndexSearch(idx, qarr.rows[1], top_k) IN
    IF \E j \in 1..Len(hits) : hits[j].id < 0 /\ hits[j].id < 0 - Len(chs)
    THEN <<>>
    ELSE CollectResults(chs, hits, doc_filter)

\* search(query, top_k, doc_filter): doc_filter {} stands for None or [].
\* Any exception (encoder failure, width mismatch, top_k < 1, self.chunks[-1]
\* on an empty list) is caught and the call returns [].
Search(idx, chs, query, top_k, doc_filter, enc) ==
    IF ntotal(idx) = 0 THEN <<>>
    ELSE IF enc = "raise" THEN <<>>
    ELSE LET qarr == Encode(<<query>>, enc) IN
    IF qarr.d # idx.d \/ top_k < 1 THEN <<>>
    ELSE LET hits == IndexSearch(idx, qarr.rows[1], top_k) IN
    IF \E j \in 1..Len(hits) : hits[j].id < 0 /\ hits[j].id < 0 - Len(chs)
    THEN <<>>
    ELSE CollectResults(chs, hits, doc_filter)

----------------------------------------------------------------------------
(* Inputs *)

DocIds == {"A", "B"}

\* a line too short to keep; such a line and one long enough; one line; one line
\* of two sentences too long for one chunk
Texts == { <<5>>, <<5, Newline, 33>>, <<25>>, <<300, Dot, Space, 280>> }

\* the texts ingested where the files are followed
DiskTexts == { <<5, Newline, 33>>, <<25>> }

\* the page counts passed where the files are followed
DiskPageCounts == {0, 1}

PageCounts == {0, 1, 2}

Queries == { <<33>>, <<300>>, <<27>> }

TopKs == {1, 2, 5}

DocFilters == { {}, {"A"}, {"B"} }

----------------------------------------------------------------------------
(* The store driven call by call *)

Current == Store(index, chunks, document_metadata, disk)

Install(r) ==
    /\ index' = r.index
    /\ chunks' = r.chunks
    /\ document_metadata' = r.meta
    /\ disk' = r.disk

IdleRequests ==
    /\ pc = [r \in {} |-> "done"]
    /\ loopOwner = 0
    /\ req = [r \in {} |-> "none"]
    /\ observed = [seen |-> FALSE]

Init ==
    /\ index = EmptyIndex
    /\ chunks = <<>>
    /\ document_metadata = EmptyMeta
    /\ disk = EmptyDisk
    /\ last = [op |-> "init"]
    /\ faults = 0
    /\ IdleRequests

\* one call of add_document, the save ending as one of `saves`
AddDocumentWith(texts, page_counts, encs, saves, cap) ==
    \E text \in texts, doc_id \in DocIds, page_count \in page_counts,
       enc \in encs, sv \in saves :
        /\ ntotal(index) + Len(SplitText(text, DefaultMinLength)) <= cap
        /\ sv = "ok" \/ faults < MaxFaults
        /\ LET r == AddDocumentCall(Current, text, doc_id, doc_id, page_count, enc, sv)
           IN  /\ Install(r)
               /\ last' = [op |-> "add", doc_id |-> doc_id,
                           ret |-> r.ret, save |-> r.save]
               /\ faults' = IF r.save \in {"none", "ok"} THEN faults ELSE faults + 1
        /\ UNCHANGED asyncVars

\* one call of delete_document, the save ending as one of `saves`
DeleteDocumentWith(saves) ==
    \E doc_id \in DocIds, sv \in saves :
        /\ sv = "ok" \/ faults < MaxFaults
        /\ LET r == DeleteDocumentCall(Current, doc_id, sv)
           IN  /\ Install(r)
               /\ last' = [op |-> "delete", doc_id |-> doc_id,
                           ret |-> r.ret, save |-> r.save]
               /\ faults' = IF r.save \in {"none", "ok"} THEN faults ELSE faults + 1
        /\ UNCHANGED asyncVars

\* one call of search
SearchCall ==
    \E query \in Queries, top_k \in TopKs, doc_filter \in DocFilters,
       enc \in EncOutcomes :
        /\ last' = [op |-> "search",
                    results |-> Search(index, chunks, query, top_k, doc_filter, enc)]
        /\ UNCHANGED <<storeVars, faults, asyncVars>>

\* the process starts again: VectorStore() constructs an empty store and loads
Restart ==
    /\ LET r == LoadFromDisk(disk)
       IN  /\ index' = r.index
           /\ chunks' = r.chunks
           /\ document_metadata' = r.meta
    /\ last' = [op |-> "load"]
    /\ UNCHANGED <<disk, faults, asyncVars>>

(* The store in memory: every save succeeds and the process keeps running. *)
AddDocument    == AddDocumentWith(Texts, PageCounts, EncOutcomes, {"ok"}, MaxVectors)
DeleteDocument == DeleteDocumentWith({"ok"})

Next == AddDocument \/ DeleteDocument \/ SearchCall

Spec == Init /\ [][Next]_vars

(* The store and its files: a save may fail at each of its steps, and the   *)
(* process may start again at any time.                                     *)
AddDocumentSaving    == AddDocumentWith(DiskTexts, DiskPageCounts, {"ok"}, SaveOutcomes, MaxDiskVectors)
DeleteDocumentSaving == DeleteDocumentWith(SaveOutcomes)

NextDisk == AddDocumentSaving \/ DeleteDocumentSaving \/ Restart

SpecDisk == Init /\ [][NextDisk]_vars

----------------------------------------------------------------------------
(* The request handlers of main.py on the server's event loop.  Both are    *)
(* `async def`: a handler runs on the loop's one thread until it awaits or  *)
(* returns, and only then may another handler run.                          *)

Requests == 1..MaxRequests

\* what extract_text gives for the uploaded file: a text, or it raises
UploadContents == { <<Space>>, <<5>>, <<5, Newline, 33>>, <<25>> }

\* a variant for handlers declared with plain `def`, which the server runs in
\* a thread pool: the thread may be given up at any position
YieldsAnywhere(p) == TRUE

\* the positions at which a handler gives up the thread: upload_doc's
\* `await file.read()`, and the handler's return
Yields(p) == p \in {"read", "done"}

\* the thread's holder after request r has moved to position p
OwnerAfter(r, p) == IF Yields(p) THEN 0 ELSE r

CanRun(r) == loopOwner = 0 \/ loopOwner = r

Goto(r, p) ==
    /\ pc' = [pc EXCEPT ![r] = p]
    /\ loopOwner' = OwnerAfter(r, p)

\* the positions of upload_doc inside add_document's three-way update: the
\* index has grown and the chunk list or the registry has not caught up
MidWrite == {"append", "meta"}

InitAsync ==
    /\ index = EmptyIndex
    /\ chunks = <<>>
    /\ document_metadata = EmptyMeta
    /\ disk = EmptyDisk
    /\ last = [op |-> "init"]
    /\ faults = 0
    /\ pc = [r \in Requests |-> "new"]
    /\ loopOwner = 0
    /\ req = [r \in Requests |-> [kind |-> "none"]]
    /\ observed = [seen |-> FALSE]

\* POST /upload/ arrives: the handler runs up to `await file.read()`
UploadArrive(r) ==
    /\ pc[r] = "new" /\ CanRun(r)
    /\ \E doc_id \in DocIds :
          req' = [req EXCEPT ![r] = [kind |-> "upload", doc_id |-> doc_id,
                                     text |-> <<>>, paragraphs |-> <<>>]]
    /\ Goto(r, "read")
    /\ UNCHANGED <<storeVars, last, faults, observed>>

\* the file is written and extract_text runs; it may raise (the handler
\* returns an error), and a text that is empty once stripped is refused
UploadExtract(r) ==
    /\ pc[r] = "read" /\ CanRun(r)
    /\ \/ /\ Goto(r, "done")
          /\ UNCHANGED req
       \/ \E text \in UploadContents :
            /\ req' = [req EXCEPT ![r].text = text]
            /\ Goto(r, IF Strip(text) = <<>> THEN "done" ELSE "split")
    /\ UNCHANGED <<storeVars, last, faults, observed>>

\* add_document begins: no paragraphs, return False
UploadSplit(r) ==
    /\ pc[r] = "split" /\ CanRun(r)
    /\ LET paragraphs == SplitText(req[r].text, DefaultMinLength)
       IN  /\ req' = [req EXCEPT ![r].paragraphs = paragraphs]
           /\ Goto(r, IF paragraphs = <<>> THEN "done" ELSE "encode")
    /\ UNCHANGED <<storeVars, last, faults, observed>>

\* model.encode and index.add; either may raise, and add_document returns False
UploadEncode(r) ==
    /\ pc[r] = "encode" /\ CanRun(r)
    /\ \E enc \in EncOutcomes :
         LET arr == Encode(req[r].paragraphs, enc) IN
         IF enc = "raise" \/ IndexAddRaises(index, arr)
         THEN Goto(r, "done") /\ UNCHANGED index
         ELSE Goto(r, "append") /\ index' = IndexAdd(index, arr)
    /\ UNCHANGED <<chunks, document_metadata, disk, last, faults, req, observed>>

\* the loop appending the chunk records (page_count is the default, 1)
UploadAppend(r) ==
    /\ pc[r] = "append" /\ CanRun(r)
    /\ chunks' = AppendChunks(chunks, ntotal(index), req[r].paragraphs, 0,
                              req[r].doc_id, req[r].doc_id, 1)
    /\ Goto(r, "meta")
    /\ UNCHANGED <<index, document_metadata, disk, last, faults, req, observed>>

UploadMeta(r) ==
    /\ pc[r] = "meta" /\ CanRun(r)
    /\ document_metadata' = MetaPut(document_metadata, req[r].doc_id,
                                    MetaEntry(req[r].doc_id, 1, Len(req[r].paragraphs)))
    /\ Goto(r, "save")
    /\ UNCHANGED <<index, chunks, disk, last, faults, req, observed>>

\* _save_to_disk, then add_document and the handler return
UploadSave(r) ==
    /\ pc[r] = "save" /\ CanRun(r)
    /\ \E sv \in SaveOutcomes :
         /\ sv = "ok" \/ faults < MaxFaults
         /\ disk' = SaveToDisk(disk, index, chunks, document_metadata, sv)
         /\ faults' = IF sv = "ok" THEN faults ELSE faults + 1
    /\ Goto(r, "done")
    /\ UNCHANGED <<index, chunks, document_metadata, last, req, observed>>

\* POST /ask/ arrives: the handler has no await; it first prints the index
\* size, the registry keys and the chunk count
AskArrive(r) ==
    /\ pc[r] = "new" /\ CanRun(r)
    /\ \E question \in Queries :
          req' = [req EXCEPT ![r] = [kind |-> "ask", question |-> question]]
    /\ Goto(r, "search")
    /\ UNCHANGED <<storeVars, last, faults, observed>>

\* vector_store.search(question, top_k=5); no results, return at once
AskSearch(r) ==
    /\ pc[r] = "search" /\ CanRun(r)
    /\ \E enc \in EncOutcomes :
         LET results == Search(index, chunks, req[r].question, 5, {}, enc) IN
         /\ observed' = [seen |-> TRUE, ntotal |-> ntotal(index),
                         nchunks |-> Len(chunks),
                         midwrite |-> \E w \in Requests : pc[w] \in MidWrite,
                         inflight |-> \E w \in Requests : pc[w] = "read",
                         results |-> results]
         /\ Goto(r, IF results = <<>> THEN "done" ELSE "answer")
    /\ UNCHANGED <<storeVars, last, faults, req>>

\* ask_llm for each result and identify_themes: the store is not touched
AskAnswer(r) ==
    /\ pc[r] = "answer" /\ CanRun(r)
    /\ Goto(r, "done")
    /\ UNCHANGED <<storeVars, last, faults, req, observed>>

NextAsync ==
    \E r \in Requests :
        \/ UploadArrive(r) \/ UploadExtract(r) \/ UploadSplit(r) \/ UploadEncode(r)
        \/ UploadAppend(r) \/ UploadMeta(r) \/ UploadSave(r)
        \/ AskArrive(r) \/ AskSearch(r) \/ AskAnswer(r)

SpecAsync == InitAsync /\ [][NextAsync]_vars

----------------------------------------------------------------------------
(* _split_text on its own: one call on a text and a min_length *)

\* the characters and runs the texts are made of: newline, '.', ' ', runs
\* shorter and longer than the default min_length, two runs that fit into 500
\* characters together but not with ". " between them, and a run longer than
\* 500 characters
SplitTokens == {Newline, Dot, Space, 5, 25, 249, 250, 510}

\* the texts of at most MaxTokens tokens in which no two runs are adjacent
SplitInputs ==
    UNION { {t \in [1..n -> SplitTokens] :
               \A i \in 1..(n - 1) : ~(t[i] > 0 /\ t[i + 1] > 0)} : n \in 0..MaxTokens }

MinLengths == {6, DefaultMinLength, 260}

InitSplit ==
    /\ index = EmptyIndex
    /\ chunks = <<>>
    /\ document_metadata = EmptyMeta
    /\ disk = EmptyDisk
    /\ faults = 0
    /\ IdleRequests
    /\ \E text \in SplitInputs, min_length \in MinLengths :
          last = [op |-> "text", text |-> text, min_length |-> min_length]

\* one call of _split_text(text, min_length)
SplitTextCall ==
    /\ last.op = "text"
    /\ last' = [op |-> "split", text |-> last.text, min_length |-> last.min_length,
                out |-> SplitText(last.text, last.min_length)]
    /\ UNCHANGED <<storeVars, faults, asyncVars>>

NextSplit == SplitTextCall

SpecSplit == InitSplit /\ [][NextSplit]_vars

----------------------------------------------------------------------------
(* Properties *)

InMemory == [index |-> index, chunks |-> chunks, meta |-> document_metadata]

EmbeddingIds == {chunks[i].embedding_id : i \in 1..Len(chunks)}

\* C1: in every state reached from the empty store by add_document and
\* delete_document calls, there are as many chunk records as index vectors and
\* the embedding_ids are exactly 0 .. ntotal - 1.
C1_DenseEmbeddingIds ==
    /\ Len(chunks) = ntotal(index)
    /\ EmbeddingIds = 0..(ntotal(index) - 1)

\* C2: for every chunk record, the index row at its embedding_id is the vector
\* the encoder gives for its text.
C2_VectorOfChunk ==
    \A i \in 1..Len(chunks) :
        /\ chunks[i].embedding_id \in 0..(ntotal(index) - 1)
        /\ index.xb[chunks[i].embedding_id + 1] = EmbedText(chunks[i].text)

\* C3: add_document is all-or-nothing: returning True, the index and the chunk
\* list have grown by the n chunks of the text and the registry holds doc_id;
\* returning False, index, chunk list and registry are as before the call.
C3_AddAllOrNothing ==
    [][ last'.op = "add" =>
          IF last'.ret
          THEN /\ last'.doc_id \in DOMAIN document_metadata'
               /\ LET n == document_metadata'[last'.doc_id].chunk_count IN
                  /\ n > 0
                  /\ ntotal(index') = ntotal(index) + n
                  /\ Len(chunks') = Len(chunks) + n
                  /\ SubSeq(chunks', 1, Len(chunks)) = chunks
                  /\ SubSeq(index'.xb, 1, ntotal(index)) = index.xb
                  /\ \A i \in 1..n :
                        /\ chunks'[Len(chunks) + i].doc_id = last'.doc_id
                        /\ chunks'[Len(chunks) + i].embedding_id = ntotal(index) + i - 1
                        /\ index'.xb[ntotal(index) + i]
                             = EmbedText(chunks'[Len(chunks) + i].text)
          ELSE /\ index' = index
               /\ chunks' = chunks
               /\ document_metadata' = document_metadata ]_vars

\* C4: after delete_document(d) has returned True, get_document_chunks(d) is
\* empty, d is no key of the registry, and search with doc_filter = [d] returns
\* the empty list for every query and every top_k.
C4_DeleteComplete ==
    (last.op = "delete" /\ last.ret) =>
        /\ GetDocumentChunks(chunks, last.doc_id) = <<>>
        /\ last.doc_id \notin DOMAIN document_metadata
        /\ \A q \in Queries, k \in TopKs, enc \in EncOutcomes :
              Search(index, chunks, q, k, {last.doc_id}, enc) = <<>>

\* a delete has returned True, another document remains, and an unfiltered
\* search finds it
C4_Witness ==
    /\ last.op = "delete" /\ last.ret
    /\ chunks # <<>>
    /\ \E q \in Queries, k \in TopKs : Search(index, chunks, q, k, {}, "ok") # <<>>

DiskDocIds ==
    LET chs == JsonLoad(disk.chunk_file.data) IN {chs[i].doc_id : i \in 1..Len(chs)}

\* C5: the three files always describe one store: all absent, or all readable
\* with as many index rows as chunk records and the registry keys being the
\* doc_ids of the chunk records.
C5_DiskNeverPartial ==
    \/ /\ disk.index_file.st = "absent"
       /\ disk.chunk_file.st = "absent"
       /\ disk.metadata_file.st = "absent"
    \/ /\ disk.index_file.st = "ok"
       /\ disk.chunk_file.st = "ok"
       /\ disk.metadata_file.st = "ok"
       /\ ntotal(ReadIndex(disk.index_file.data)) = Len(JsonLoad(disk.chunk_file.data))
       /\ DOMAIN PickleLoad(disk.metadata_file.data) = DiskDocIds

\* C6: a store constructed while one of the three files is missing or
\* unreadable is the empty triple.
C6_LoadAllOrNothing ==
    (/\ last.op = "load"
     /\ \/ disk.index_file.st # "ok"
        \/ disk.chunk_file.st # "ok"
        \/ disk.metadata_file.st # "ok")
    => InMemory = EmptyStore

\* C7: a successful save followed by a load gives back the index, the chunk
\* list and the registry: of the store as it is in any reachable state, and of
\* the store as the last successful save has left the files.
C7_RoundTrip ==
    /\ LoadFromDisk(SaveToDisk(disk, index, chunks, document_metadata, "ok")) = InMemory
    /\ (last.op \in {"add", "delete"} /\ last.save = "ok") => LoadFromDisk(disk) = InMemory

\* a save has just succeeded for a store of two documents
C7_Witness ==
    /\ last.op \in {"add", "delete"} /\ last.save = "ok"
    /\ Len(chunks) >= 2
    /\ Cardinality(DOMAIN document_metadata) = 2

\* C8: chunk_id is the record's position in the chunk list.
C8_ChunkIdIsPosition == \A i \in 1..Len(chunks) : chunks[i].chunk_id = i - 1

\* C9: after add_document has returned True, search(text of the first chunk it
\* appended, top_k = 1) returns exactly that chunk record, with distance 0.
C9_SelfRetrieval ==
    (last.op = "add" /\ last.ret) =>
        LET n     == document_metadata[last.doc_id].chunk_count
            first == chunks[Len(chunks) - n + 1]
        IN  Search(index, chunks, first.text, 1, {}, "ok")
              = <<SearchResult(first, [id |-> first.embedding_id, dist |-> 0])>>

C11_DeleteUnknownNoEffect ==
    [][ (/\ last'.op = "delete"
         /\ \/ last'.doc_id \notin DOMAIN document_metadata
            \/ GetDocumentChunks(chunks, last'.doc_id) = <<>>)
        => /\ ~last'.ret
           /\ last'.save = "none"
           /\ index' = index
           /\ chunks' = chunks
           /\ document_metadata' = document_metadata
           /\ disk' = disk ]_vars

\* delete_document has returned False for a document the registry holds (loaded
\* from a metadata file older than the chunk file) that has no chunk record
C11_Witness ==
    /\ last.op = "delete" /\ ~last.ret
    /\ last.doc_id \in DOMAIN document_metadata
    /\ GetDocumentChunks(chunks, last.doc_id) = <<>>
    /\ chunks # <<>>

C13_SaveAfterMutation ==
    /\ last.op \in {"add", "delete"} =>
          /\ last.ret <=> last.save # "none"
          /\ last.save = "ok" =>
                disk = SaveToDisk(EmptyDisk, index, chunks, document_metadata, "ok")
    /\ last.op = "load" => InMemory = LoadFromDisk(disk)

\* a delete_document has returned True although its save failed, leaving
\* another document in the store
C13_Witness ==
    /\ last.op = "delete" /\ last.ret
    /\ last.save \notin {"ok", "none"}
    /\ chunks # <<>>

\* the part of a call's result that lives in memory, with the value returned
InMemoryResult(r) == [index |-> r.index, chunks |-> r.chunks, meta |-> r.meta, ret |-> r.ret]

\* C14: whatever the save does, add_document and delete_document leave in
\* memory the same index, chunk list and registry and return the same value as
\* when the save succeeds; a call whose save failed has returned True, and
\* this holds in every state reached after failed saves.
C14_SaveFailureKeepsMemory ==
    /\ (last.op \in {"add", "delete"} /\ last.save # "none") => last.ret
    /\ \A sv \in SaveOutcomes, doc_id \in DocIds :
          /\ InMemoryResult(DeleteDocumentCall(Current, doc_id, sv))
               = InMemoryResult(DeleteDocumentCall(Current, doc_id, "ok"))
          /\ \A text \in DiskTexts, page_count \in DiskPageCounts :
                InMemoryResult(AddDocumentCall(Current, text, doc_id, doc_id,
                                               page_count, "ok", sv))
                  = InMemoryResult(AddDocumentCall(Current, text, doc_id, doc_id,
                                                   page_count, "ok", "ok"))

\* an add_document whose save failed has returned True and a search finds the
\* chunk it added
C14_Witness ==
    /\ last.op = "add" /\ last.ret
    /\ last.save \notin {"ok", "none"}
    /\ \E q \in Queries : Search(index, chunks, q, 1, {last.doc_id}, "ok") # <<>>

\* C15: on a store whose index holds no vector, search returns the empty list
\* for every query, top_k and doc_filter and whatever the encoder would do, and
\* does not reach the encoder.
C15_EmptyIndexSearch ==
    ntotal(index) = 0 =>
        /\ ~SearchEncodes(index)
        /\ \A q \in Queries, k \in TopKs, f \in DocFilters, enc \in EncOutcomes :
              Search(index, chunks, q, k, f, enc) = <<>>

\* a store loaded from an index file holding no vector and a chunk file that
\* still holds chunk records
C15_Witness ==
    /\ last.op = "load"
    /\ ntotal(index) = 0
    /\ chunks # <<>>

\* C16: in every state in which search can run, the chunk record at list
\* position i has embedding_id i, so the record search takes by position for an
\* id the index returned is the chunk with that embedding_id.
C16_EmbeddingIdIsPosition ==
    /\ \A i \in 1..Len(chunks) : chunks[i].embedding_id = i - 1
    /\ \A q \in Queries, k \in TopKs :
          LET hits == IF ntotal(index) = 0 THEN <<>>
                      ELSE IndexSearch(index, EmbedText(q), k)
          IN  \A j \in 1..Len(hits) :
                 (hits[j].id >= 0 /\ hits[j].id < Len(chunks)) =>
                     chunks[PyIndex(chunks, hits[j].id)].embedding_id = hits[j].id

\* the smaller of two integers
Min(a, b) == IF a <= b THEN a ELSE b

\* the chunk record inside a search result, without score and distance
ChunkOf(res) ==
    [doc_id |-> res.doc_id, doc_name |-> res.doc_name, text |-> res.text,
     page |-> res.page, chunk_id |-> res.chunk_id, embedding_id |-> res.embedding_id]

\* C17: for every top_k >= 1, search returns at most min(top_k, index size)
\* results and no chunk record twice: the slots the index could not fill give
\* no result entry.
C17_NoPaddedResults ==
    \A q \in Queries, k \in TopKs, f \in DocFilters :
        LET res == Search(index, chunks, q, k, f, "ok") IN
        /\ Len(res) <= Min(k, ntotal(index))
        /\ \A i, j \in 1..Len(res) : i # j => ChunkOf(res[i]) # ChunkOf(res[j])

\* C18: whenever a doc_filter is passed to search, the empty list included
\* (here the filter {}), every result's doc_id is a member of it, and the
\* results are those of the unfiltered search that pass the filter.
C18_FilterMembership ==
    \A q \in Queries, k \in TopKs, f \in DocFilters :
        LET res == Search(index, chunks, q, k, f, "ok") IN
        /\ \A i \in 1..Len(res) : res[i].doc_id \in f
        /\ res = SelectSeq(Search(index, chunks, q, k, {}, "ok"),
                           LAMBDA r : r.doc_id \in f)

\* C19: a delete_document(d) that returns True leaves the chunk records of the
\* other documents in their order with their doc_id, doc_name, text and page,
\* gives them the embedding_ids 0 .. m-1 in that order, and leaves every
\* registry entry other than d's as it was.
C19_DeleteFrame ==
    [][ (last'.op = "delete" /\ last'.ret) =>
          LET d    == last'.doc_id
              rest == SelectSeq(chunks, LAMBDA c : c.doc_id # d)
          IN  /\ Len(chunks') = Len(rest)
              /\ \A i \in 1..Len(rest) :
                    /\ chunks'[i].doc_id = rest[i].doc_id
                    /\ chunks'[i].doc_name = rest[i].doc_name
                    /\ chunks'[i].text = rest[i].text
                    /\ chunks'[i].page = rest[i].page
                    /\ chunks'[i].embedding_id = i - 1
              /\ DOMAIN document_metadata' = DOMAIN document_metadata \ {d}
              /\ \A k \in DOMAIN document_metadata' :
                    document_metadata'[k] = document_metadata[k] ]_vars

\* a delete has returned True and two chunk records of another document remain
C19_Witness ==
    /\ last.op = "delete" /\ last.ret
    /\ Len(chunks) >= 2
    /\ DOMAIN document_metadata # {}

\* C20: for every registry entry, chunk_count is the number of chunk records
\* that carry its doc_id, also after a doc_id has been ingested again.
C20_ChunkCountMatches ==
    \A k \in DOMAIN document_metadata :
        document_metadata[k].chunk_count = Len(GetDocumentChunks(chunks, k))

\* C21: in every state reached from the empty store by add_document and
\* delete_document calls, a doc_id is a key of the registry exactly when some
\* chunk record carries it.
C21_RegistryMatchesChunks ==
    \A d \in DocIds :
        d \in DOMAIN document_metadata <=> GetDocumentChunks(chunks, d) # <<>>

\* a delete has returned True in a store where an add_document had failed
\* after growing the index, and another document remains
C21_Witness ==
    /\ last.op = "delete" /\ last.ret
    /\ DOMAIN document_metadata # {}
    /\ ntotal(index) > Len(chunks)

\* C22: an add_document that returns True was called with page_count >= 1 and
\* gives its i-th new record (from 0) the page (i mod page_count) + 1, which
\* lies in 1 .. page_count; the records before it keep their pages, a delete
\* keeps the pages of the records that remain, and any other call keeps the
\* chunk list.
C22_PageAssignment ==
    [][ /\ (last'.op = "add" /\ last'.ret) =>
              LET e == document_metadata'[last'.doc_id] IN
              /\ e.page_count >= 1
              /\ Len(chunks') = Len(chunks) + e.chunk_count
              /\ \A i \in 0..(e.chunk_count - 1) :
                    /\ chunks'[Len(chunks) + i + 1].page = (i % e.page_count) + 1
                    /\ chunks'[Len(chunks) + i + 1].page \in 1..e.page_count
              /\ \A i \in 1..Len(chunks) : chunks'[i].page = chunks[i].page
        /\ (last'.op = "delete" /\ last'.ret) =>
              LET rest == SelectSeq(chunks, LAMBDA c : c.doc_id # last'.doc_id) IN
              /\ Len(chunks') = Len(rest)
              /\ \A i \in 1..Len(rest) : chunks'[i].page = rest[i].page
        /\ ~(last'.op \in {"add", "delete"} /\ last'.ret) => chunks' = chunks ]_vars

\* an add_document has returned True for a text of more chunks than pages, so
\* that the page numbers wrap around, after a document ingested earlier
C22_Witness ==
    /\ last.op = "add" /\ last.ret
    /\ document_metadata[last.doc_id].chunk_count > document_metadata[last.doc_id].page_count
    /\ Len(chunks) > document_metadata[last.doc_id].chunk_count

\* C23: every chunk _split_text(text, min_length) emits is at least min_length
\* characters long.
C23_ChunksMeetMinLength ==
    last.op = "split" =>
        \A i \in 1..Len(last.out) : StrLen(last.out[i]) >= last.min_length

\* a line longer than 500 characters was split into two sentences and only one
\* of them was emitted: the other buffer was shorter than min_length
C23_Witness ==
    /\ last.op = "split"
    /\ Len(SplitLines(last.text)) = 1
    /\ StrLen(Strip(last.text)) > MaxChunkLen
    /\ Len(SplitSentences(Strip(last.text))) = 2
    /\ Len(last.out) = 1
    /\ StrLen(last.out[1]) < StrLen(Strip(last.text)) - 2

\* C24: a chunk _split_text emits that is made of two or more sentences (it
\* holds the separator ". ") is at most 500 characters long; only a chunk of a
\* single sentence can be longer.
C24_JoinedChunksWithinMax ==
    last.op = "split" =>
        \A i \in 1..Len(last.out) :
            Len(SplitSentences(last.out[i])) >= 2 => StrLen(last.out[i]) <= MaxChunkLen

====
